---- MODULE Spec2Model ----
(***************************************************************************)
(* Lifecycle of the named datastore handles of dxlib-v3: the Redis manager *)
(* and its handles (package redis) and the database manager (package       *)
(* databases).  A handle is configured from the configuration registry,    *)
(* connected, and disconnected; a manager registers handles by name and    *)
(* runs the bulk operations over its registry.                             *)
(***************************************************************************)
EXTENDS Integers, Sequences, FiniteSets, TLC

(* ------------------------------------------------------------------ *)
(* Bounds of the model                                                 *)
(* ------------------------------------------------------------------ *)

\* Handle objects ever allocated (NewRedis and NewDatabase together).
MaxHandles == 2
\* The per-handle count of field-read passes saturates here.
MaxReads == 2

\* Names under which handles are registered and configuration entries kept.
Names == {"a", "b"}
\* Names of configuration sections a caller may pass; "none" is never loaded.
SectionNames == {"redis", "none"}

Nil == "nil"
Ring == "ring"

(* ------------------------------------------------------------------ *)
(* Configuration values (utils.JSON: map[string]interface{})           *)
(* ------------------------------------------------------------------ *)

JAbsent == [t |-> "absent", s |-> "", n |-> 0, b |-> FALSE]
JStr(x) == [t |-> "string", s |-> x, n |-> 0, b |-> FALSE]
JInt(k) == [t |-> "int", s |-> "", n |-> k, b |-> FALSE]
JBool(v) == [t |-> "bool", s |-> "", n |-> 0, b |-> v]

\* Go's v.(string): the value and ok, the zero value when the assertion fails.
AsString(v) == [val |-> IF v.t = "string" THEN v.s ELSE "", ok |-> v.t = "string"]
\* Go's v.(bool).
AsBool(v) == [val |-> IF v.t = "bool" THEN v.b ELSE FALSE, ok |-> v.t = "bool"]
\* json2.GetInt(obj, key): the integer, or an error when the key is missing
\* or holds no integer.
GetInt(obj, key) ==
  [val |-> IF obj[key].t = "int" THEN obj[key].n ELSE 0, err |-> obj[key].t # "int"]

NoFields ==
  [is_connect_at_start |-> JAbsent, must_connected |-> JAbsent, address |-> JAbsent,
   user_name |-> JAbsent, password |-> JAbsent, database_index |-> JAbsent]
\* No entry under the name.
NoEntry == [t |-> "absent", f |-> NoFields]
\* An entry that is not a JSON object.
ScalarEntry == [t |-> "scalar", f |-> NoFields]
Object(start, must, addr, user, pass, idx) ==
  [t |-> "object",
   f |-> [is_connect_at_start |-> start, must_connected |-> must, address |-> addr,
          user_name |-> user, password |-> pass, database_index |-> idx]]
\* v.(utils.JSON)
AsJSON(e) == [val |-> e.f, ok |-> e.t = "object"]

(* ------------------------------------------------------------------ *)
(* Logger (dxlib/v3/log): what a call does to the process              *)
(* ------------------------------------------------------------------ *)

\* log.Log.Fatalf: logs and terminates the process.
Fatalf == "fatal"
\* log.Log.PanicAndCreateErrorf: the fatal class, logs and aborts the process.
PanicAndCreateErrorf == "fatal"
\* log.Log.WarnAndCreateErrorf: logs a warning, returns an error value.
WarnAndCreateErrorf == "err"
\* log.Log.ErrorAndCreateErrorf: logs an error, returns an error value.
ErrorAndCreateErrorf == "err"
\* A nil pointer dereference: the Go runtime panics and the process ends.
NilDereference == "panic"

\* The returns after which the process no longer runs.
Terminal == {"fatal", "panic"}

(* ------------------------------------------------------------------ *)
(* DXRedis                                                             *)
(* ------------------------------------------------------------------ *)

\* The result of a handle operation: the handle after it, what it returned
\* ("ok" for a nil error) and the side effects it performed: "read" (the
\* configuration fields read into the handle), "newring" (a client
\* constructed), "ping" with "pingfail" when it failed, "close" with
\* "closefail" or "closed".
Result(h, ret, eff) == [h |-> h, ret |-> ret, eff |-> eff]

\* Mutant: the two flags are stored in each other's field.
NewRedisObjectSwapsFlags(nameId, isConnectAtStart, mustConnected) ==
  [kind |-> "redis", NameId |-> nameId, IsConfigured |-> FALSE,
   Address |-> "", UserName |-> "", HasUserName |-> FALSE,
   Password |-> "", HasPassword |-> FALSE, DatabaseIndex |-> 0,
   IsConnectAtStart |-> mustConnected, MustConnected |-> isConnectAtStart,
   Connection |-> Nil, Connected |-> FALSE]

\* The DXRedis value NewRedis builds.
NewRedisObject(nameId, isConnectAtStart, mustConnected) ==
  [kind |-> "redis", NameId |-> nameId, IsConfigured |-> FALSE,
   Address |-> "", UserName |-> "", HasUserName |-> FALSE,
   Password |-> "", HasPassword |-> FALSE, DatabaseIndex |-> 0,
   IsConnectAtStart |-> isConnectAtStart, MustConnected |-> mustConnected,
   Connection |-> Nil, Connected |-> FALSE]

\* Mutant: a configuration failure is a warning whatever MustConnected is.
MustOrWarnAlwaysWarns(r) == WarnAndCreateErrorf

\* The must/optional split of a configuration failure.
MustOrWarn(r) == IF r.MustConnected THEN PanicAndCreateErrorf ELSE WarnAndCreateErrorf

\* Mutant: user_name is read like address, a missing one is a failure.
ReadConfigurationRequiresUserName(r, cfg) ==
  IF ~cfg["redis"].present THEN Result(r, PanicAndCreateErrorf, {})
  ELSE
    LET redisConfiguration == AsJSON(cfg["redis"].data[r.NameId]) IN
    IF ~redisConfiguration.ok THEN Result(r, MustOrWarn(r), {})
    ELSE
      LET f == redisConfiguration.val
          a == AsString(f.address)
          u == AsString(f.user_name)
          p == AsString(f.password)
          d == GetInt(f, "database_index")
          r1 == [r EXCEPT !.Address = a.val]
          r2 == [r1 EXCEPT !.UserName = u.val, !.HasUserName = u.ok,
                           !.Password = p.val, !.HasPassword = p.ok,
                           !.DatabaseIndex = d.val]
      IN
      IF ~a.ok THEN Result(r1, MustOrWarn(r), {"read"})
      ELSE IF ~u.ok \/ d.err THEN Result(r2, MustOrWarn(r), {"read"})
      ELSE Result([r2 EXCEPT !.IsConfigured = TRUE], "ok", {"read"})

\* The body of ApplyFromConfiguration's if statement: the lookup of the
\* handle's record in section "redis" and the reads of its fields.
ReadConfiguration(r, cfg) ==
  IF ~cfg["redis"].present THEN Result(r, PanicAndCreateErrorf, {})
  ELSE
    LET redisConfiguration == AsJSON(cfg["redis"].data[r.NameId]) IN
    IF ~redisConfiguration.ok THEN Result(r, MustOrWarn(r), {})
    ELSE
      LET f == redisConfiguration.val
          a == AsString(f.address)
          r1 == [r EXCEPT !.Address = a.val]
      IN
      IF ~a.ok THEN Result(r1, MustOrWarn(r), {"read"})
      ELSE
        LET u == AsString(f.user_name)
            p == AsString(f.password)
            d == GetInt(f, "database_index")
            r2 == [r1 EXCEPT !.UserName = u.val, !.HasUserName = u.ok,
                             !.Password = p.val, !.HasPassword = p.ok,
                             !.DatabaseIndex = d.val]
        IN
        IF d.err THEN Result(r2, MustOrWarn(r), {"read"})
        ELSE Result([r2 EXCEPT !.IsConfigured = TRUE], "ok", {"read"})

\* Mutant: the fields are read on every call, configured or not.
ApplyFromConfigurationUnguarded(r, cfg) == ReadConfiguration(r, cfg)

\* DXRedis.ApplyFromConfiguration, reading the registry cfg.
ApplyFromConfiguration(r, cfg) ==
  IF r.IsConfigured THEN Result(r, "ok", {}) ELSE ReadConfiguration(r, cfg)

\* Mutant: no early return on a handle that is already connected.
ConnectAlways(r, cfg, pingOK) ==
  LET c == ApplyFromConfiguration(r, cfg) IN
  IF c.ret # "ok" THEN c
  ELSE IF ~pingOK
    THEN Result(c.h, IF r.MustConnected THEN Fatalf ELSE "err",
                c.eff \cup {"newring", "ping", "pingfail"})
    ELSE Result([c.h EXCEPT !.Connection = Ring, !.Connected = TRUE], "ok",
                c.eff \cup {"newring", "ping"})

\* Mutant: the client is stored in the handle before it is pinged.
ConnectStoresBeforePing(r, cfg, pingOK) ==
  IF r.Connected THEN Result(r, "ok", {})
  ELSE
    LET c == ApplyFromConfiguration(r, cfg) IN
    IF c.ret # "ok" THEN c
    ELSE IF ~pingOK
      THEN Result([c.h EXCEPT !.Connection = Ring],
                  IF r.MustConnected THEN Fatalf ELSE "err",
                  c.eff \cup {"newring", "ping", "pingfail"})
      ELSE Result([c.h EXCEPT !.Connection = Ring, !.Connected = TRUE], "ok",
                  c.eff \cup {"newring", "ping"})

\* DXRedis.Connect; pingOK is the outcome of the liveness ping.
Connect(r, cfg, pingOK) ==
  IF r.Connected THEN Result(r, "ok", {})
  ELSE
    LET c == ApplyFromConfiguration(r, cfg) IN
    IF c.ret # "ok" THEN c
    ELSE IF ~pingOK
      THEN Result(c.h, IF r.MustConnected THEN Fatalf ELSE "err",
                  c.eff \cup {"newring", "ping", "pingfail"})
      ELSE Result([c.h EXCEPT !.Connection = Ring, !.Connected = TRUE], "ok",
                  c.eff \cup {"newring", "ping"})

\* Mutant: a disconnect also forgets the configuration.
DisconnectResetsConfiguration(r, closeOK) ==
  IF ~r.Connected THEN Result(r, "ok", {})
  ELSE IF ~closeOK THEN Result(r, "err", {"close", "closefail"})
  ELSE Result([r EXCEPT !.Connection = Nil, !.Connected = FALSE, !.IsConfigured = FALSE],
              "ok", {"close", "closed"})

\* Mutant: the connection reference is not cleared.
DisconnectKeepsConnection(r, closeOK) ==
  IF ~r.Connected THEN Result(r, "ok", {})
  ELSE IF ~closeOK THEN Result(r, "err", {"close", "closefail"})
  ELSE Result([r EXCEPT !.Connected = FALSE], "ok", {"close", "closed"})

\* Mutant: the handle is reset before the close error is looked at.
DisconnectClearsOnError(r, closeOK) ==
  IF ~r.Connected THEN Result(r, "ok", {})
  ELSE IF ~closeOK
    THEN Result([r EXCEPT !.Connection = Nil, !.Connected = FALSE], "err",
                {"close", "closefail"})
    ELSE Result([r EXCEPT !.Connection = Nil, !.Connected = FALSE], "ok",
                {"close", "closed"})

\* DXRedis.Disconnect; closeOK is the outcome of closing the client.  Close on
\* a nil client is a nil dereference.
Disconnect(r, closeOK) ==
  IF ~r.Connected THEN Result(r, "ok", {})
  ELSE IF r.Connection = Nil THEN Result(r, NilDereference, {})
  ELSE IF ~closeOK THEN Result(r, "err", {"close", "closefail"})
  ELSE Result([r EXCEPT !.Connection = Nil, !.Connected = FALSE], "ok",
              {"close", "closed"})

(* ------------------------------------------------------------------ *)
(* DXDatabase (the handle of package databases)                        *)
(* ------------------------------------------------------------------ *)

\* The DXDatabase value NewDatabase builds.
NewDatabaseObject(nameId, isConnectAtStart, mustBeConnected) ==
  [kind |-> "database", NameId |-> nameId, IsConfigured |-> FALSE,
   Address |-> "", UserName |-> "", HasUserName |-> FALSE,
   Password |-> "", HasPassword |-> FALSE, DatabaseIndex |-> 0,
   IsConnectAtStart |-> isConnectAtStart, MustConnected |-> mustBeConnected,
   Connection |-> Nil, Connected |-> FALSE]

\* DXDatabase.ApplyFromConfiguration(configurationNameId).
DbApplyFromConfiguration(d, cfg, sec) ==
  IF d.IsConfigured THEN Result(d, "ok", {})
  ELSE
    LET e == IF cfg[sec].present THEN AsJSON(cfg[sec].data[d.NameId])
             ELSE AsJSON(NoEntry)
    IN
    IF ~e.ok THEN Result(d, MustOrWarn(d), {})
    ELSE
      LET a == AsString(e.val.address)
          u == AsString(e.val.user_name)
          p == AsString(e.val.password)
      IN
      IF ~a.ok THEN Result(d, MustOrWarn(d), {"read"})
      ELSE Result([d EXCEPT !.Address = a.val,
                            !.UserName = u.val, !.HasUserName = u.ok,
                            !.Password = p.val, !.HasPassword = p.ok,
                            !.IsConfigured = TRUE], "ok", {"read"})

\* DXDatabase.Connect.
DbConnect(d, cfg, sec, pingOK) ==
  IF d.Connected THEN Result(d, "ok", {})
  ELSE
    LET c == DbApplyFromConfiguration(d, cfg, sec) IN
    IF c.ret # "ok" THEN c
    ELSE IF ~pingOK
      THEN Result(c.h, IF d.MustConnected THEN Fatalf ELSE "err",
                  c.eff \cup {"newring", "ping", "pingfail"})
      ELSE Result([c.h EXCEPT !.Connection = Ring, !.Connected = TRUE], "ok",
                  c.eff \cup {"newring", "ping"})

\* DXDatabase.Disconnect.
DbDisconnect(d, closeOK) ==
  IF ~d.Connected THEN Result(d, "ok", {})
  ELSE IF ~closeOK THEN Result(d, "err", {"close", "closefail"})
  ELSE Result([d EXCEPT !.Connection = Nil, !.Connected = FALSE], "ok",
              {"close", "closed"})

(* ------------------------------------------------------------------ *)
(* Iteration over a registry (Go's range over a map: any order)        *)
(* ------------------------------------------------------------------ *)

\* The handles a registry holds.
Registered(reg) == {reg[n] : n \in Names} \ {0}
\* The orders in which a range statement may visit the members of S.
Orders(S) ==
  {o \in [1..Cardinality(S) -> S] : \A i, j \in 1..Cardinality(S) : o[i] = o[j] => i = j}
\* The state a bulk operation carries through its loop.
Loop(hp, reg) == [heap |-> hp, reg |-> reg, ret |-> "ok", eff |-> {}]
\* The loop state after the body ran on handle id with result res.
After(st, id, res) ==
  [heap |-> [st.heap EXCEPT ![id] = res.h], reg |-> st.reg, ret |-> res.ret,
   eff |-> st.eff \cup {<<id, e>> : e \in res.eff}]

(* ------------------------------------------------------------------ *)
(* DXRedisManager                                                      *)
(* ------------------------------------------------------------------ *)

\* Mutant: the IsConnectAtStart flag is not looked at.
ConnectAllAtStartStepIgnoresFlag(v, cfg, pingOK) == Connect(v, cfg, pingOK)

\* The body of ConnectAllAtStart's loop on handle v.
ConnectAllAtStartStep(v, cfg, pingOK) ==
  IF v.IsConnectAtStart THEN Connect(v, cfg, pingOK) ELSE Result(v, "ok", {})

\* Mutant: the loop body of ConnectAllAtStart, copied with its flag test.
ConnectAllStepOnlyFlagged(v, cfg, pingOK) ==
  IF v.IsConnectAtStart THEN Connect(v, cfg, pingOK) ELSE Result(v, "ok", {})

\* The body of ConnectAll's loop on handle v.
ConnectAllStep(v, cfg, pingOK) == Connect(v, cfg, pingOK)

\* Mutant: the error of Disconnect is dropped and the loop goes on.
DisconnectAllStepDropsError(v, closeOK) ==
  LET d == Disconnect(v, closeOK) IN Result(d.h, "ok", d.eff)

\* The body of DisconnectAll's loop on handle v.
DisconnectAllStep(v, closeOK) == Disconnect(v, closeOK)

\* Mutant: a flag that is present but no boolean counts as set.
FlagOfPresent(v) == IF AsBool(v).ok THEN AsBool(v).val ELSE v.t # "absent"

\* The flag LoadFromConfiguration reads from an entry: false unless a boolean.
FlagOf(v) == IF AsBool(v).ok THEN AsBool(v).val ELSE FALSE

\* The body of LoadFromConfiguration's loop on entry k of section sec.
LoadFromConfigurationStep(st, k, cfg, sec) ==
  LET d == AsJSON(cfg[sec].data[k]) IN
  IF ~d.ok THEN [st EXCEPT !.ret = ErrorAndCreateErrorf]
  ELSE
    LET redisObject == NewRedisObject(k, FlagOf(d.val.is_connect_at_start),
                                      FlagOf(d.val.must_connected))
        id == Len(st.heap) + 1
        a == ApplyFromConfiguration(redisObject, cfg)
    IN
    [heap |-> Append(st.heap, a.h), reg |-> [st.reg EXCEPT ![k] = id], ret |-> a.ret,
     eff |-> st.eff \cup {<<id, e>> : e \in a.eff}]

(* ------------------------------------------------------------------ *)
(* DXDatabaseManager                                                   *)
(* ------------------------------------------------------------------ *)

\* The body of DXDatabaseManager.ConnectAllAtStart's loop on handle v.
DbConnectAllAtStartStep(v, cfg, sec, pingOK) ==
  LET a == DbApplyFromConfiguration(v, cfg, sec) IN
  IF a.ret = "err" THEN Result(a.h, ErrorAndCreateErrorf, a.eff)
  ELSE IF a.ret # "ok" THEN a
  ELSE IF v.IsConnectAtStart
    THEN LET c == DbConnect(a.h, cfg, sec, pingOK) IN Result(c.h, c.ret, a.eff \cup c.eff)
    ELSE a

\* The body of DXDatabaseManager.ConnectAll's loop on handle v.
DbConnectAllStep(v, cfg, sec, pingOK) ==
  LET a == DbApplyFromConfiguration(v, cfg, sec) IN
  IF a.ret = "err" THEN Result(a.h, ErrorAndCreateErrorf, a.eff)
  ELSE IF a.ret # "ok" THEN a
  ELSE LET c == DbConnect(a.h, cfg, sec, pingOK) IN Result(c.h, c.ret, a.eff \cup c.eff)

\* The body of DXDatabaseManager.DisconnectAll's loop on handle v.
DbDisconnectAllStep(v, closeOK) == DbDisconnect(v, closeOK)

\* The body of DXDatabaseManager.LoadFromConfiguration's loop on entry k.
DbLoadFromConfigurationStep(st, k, cfg, sec) ==
  LET d == AsJSON(cfg[sec].data[k]) IN
  IF ~d.ok THEN [st EXCEPT !.ret = ErrorAndCreateErrorf]
  ELSE
    LET databaseObject == NewDatabaseObject(k, FlagOf(d.val.is_connect_at_start),
                                            FlagOf(d.val.must_connected))
        id == Len(st.heap) + 1
        a == DbApplyFromConfiguration(databaseObject, cfg, sec)
    IN
    [heap |-> Append(st.heap, a.h), reg |-> [st.reg EXCEPT ![k] = id], ret |-> a.ret,
     eff |-> st.eff \cup {<<id, e>> : e \in a.eff}]

(* ------------------------------------------------------------------ *)
(* The loops                                                           *)
(* ------------------------------------------------------------------ *)

\* The body of bulk operation op on handle v; ok is the outcome of the ping
\* or of the close the body may perform.
Step(op, v, cfg, sec, ok) ==
  CASE op = "ConnectAllAtStart" -> ConnectAllAtStartStep(v, cfg, ok)
    [] op = "ConnectAll" -> ConnectAllStep(v, cfg, ok)
    [] op = "DisconnectAll" -> DisconnectAllStep(v, ok)
    [] op = "DbConnectAllAtStart" -> DbConnectAllAtStartStep(v, cfg, sec, ok)
    [] op = "DbConnectAll" -> DbConnectAllStep(v, cfg, sec, ok)
    [] op = "DbDisconnectAll" -> DbDisconnectAllStep(v, ok)

RECURSIVE ForEachCollects(_, _, _, _, _, _)
\* Mutant: the loop goes on after an error and returns the first one.
ForEachCollects(op, order, st, cfg, sec, ok) ==
  IF order = <<>> THEN st
  ELSE
    LET id == Head(order)
        st1 == After(st, id, Step(op, st.heap[id], cfg, sec, ok[id]))
        rest == ForEachCollects(op, Tail(order), [st1 EXCEPT !.ret = "ok"], cfg, sec, ok)
    IN
    IF st1.ret # "ok" THEN [rest EXCEPT !.ret = st1.ret] ELSE rest

RECURSIVE ForEach(_, _, _, _, _, _)
\* for _, v := range registry { body; if err != nil { return err } }
ForEach(op, order, st, cfg, sec, ok) ==
  IF order = <<>> THEN st
  ELSE
    LET id == Head(order)
        st1 == After(st, id, Step(op, st.heap[id], cfg, sec, ok[id]))
    IN
    IF st1.ret # "ok" THEN st1 ELSE ForEach(op, Tail(order), st1, cfg, sec, ok)

RECURSIVE ForEachEntry(_, _, _, _, _)
\* for k, v := range *configuration.Data { body; if err != nil { return err } }
ForEachEntry(op, order, st, cfg, sec) ==
  IF order = <<>> THEN st
  ELSE
    LET st1 == IF op = "LoadFromConfiguration"
               THEN LoadFromConfigurationStep(st, Head(order), cfg, sec)
               ELSE DbLoadFromConfigurationStep(st, Head(order), cfg, sec)
    IN
    IF st1.ret # "ok" THEN st1 ELSE ForEachEntry(op, Tail(order), st1, cfg, sec)

\* The entry names of a section.
Entries(section) == {k \in Names : section.data[k].t # "absent"}

(* ------------------------------------------------------------------ *)
(* State                                                               *)
(* ------------------------------------------------------------------ *)

VARIABLES
  package,         \* the package whose manager the run exercises
  Configurations,  \* configuration.Manager.Configurations: section name -> section
  heap,            \* the handle objects allocated so far, by identity
  Redises,         \* redis.Manager.Redises: name -> handle identity, 0 when absent
  Databases,       \* databases.Manager.Databases: name -> handle identity, 0 when absent
  terminated,      \* the process was ended by a fatal log or a runtime panic
  lastOp,          \* the last call: its name, the handle it was made on (0: the
                   \* manager), the section LoadFromConfiguration was given, its return
  effects,         \* the side effects of the last call: <<handle, effect>>
  fieldReads       \* per handle: passes over the configuration fields so far

vars ==
  <<package, Configurations, heap, Redises, Databases, terminated, lastOp, effects,
    fieldReads>>

HandleIds == 1..MaxHandles
Allocated == 1..Len(heap)

\* A section that was never loaded.
NoSection == [present |-> FALSE, data |-> [k \in Names |-> NoEntry]]
Section(ea, eb) == [present |-> TRUE, data |-> [k \in Names |-> IF k = "a" THEN ea ELSE eb]]

\* Entries: every field; only the required ones; no address; an index that is
\* a string.
Complete == Object(JBool(TRUE), JBool(FALSE), JStr("h1"), JStr("u1"), JStr("p1"), JInt(1))
Minimal == Object(JAbsent, JBool(TRUE), JStr("h2"), JAbsent, JAbsent, JInt(0))
NoAddress == Object(JBool(TRUE), JAbsent, JAbsent, JStr("u1"), JAbsent, JInt(1))
BadIndex == Object(JAbsent, JBool(TRUE), JStr("h1"), JAbsent, JStr("p1"), JStr("1"))

\* The contents of section "redis" the managers run under.
SectionValues ==
  { Section(Complete, Minimal),
    Section(Complete, NoAddress),
    Section(ScalarEntry, Complete) }

\* The contents of section "redis" the configuration loader may bind.
HandleSectionValues ==
  SectionValues \cup {NoSection, Section(NoEntry, Minimal), Section(BadIndex, Complete)}

Configuration(r) == [sec \in SectionNames |-> IF sec = "redis" THEN r ELSE NoSection]
ConfigValues == {Configuration(r) : r \in SectionValues}
HandleConfigValues == {Configuration(r) : r \in HandleSectionValues}

Init ==
  /\ package \in {"redis", "databases"}
  /\ Configurations \in ConfigValues
  /\ heap = <<>>
  /\ Redises = [n \in Names |-> 0]
  /\ Databases = [n \in Names |-> 0]
  /\ terminated = FALSE
  /\ lastOp = [op |-> "init", id |-> 0, arg |-> "", ret |-> "ok"]
  /\ effects = {}
  /\ fieldReads = [i \in HandleIds |-> 0]

Min(x, y) == IF x < y THEN x ELSE y

\* The bookkeeping every call ends with.
Record(op, id, arg, ret, eff) ==
  /\ terminated' = (ret \in Terminal)
  /\ lastOp' = [op |-> op, id |-> id, arg |-> arg, ret |-> ret]
  /\ effects' = eff
  /\ fieldReads' = [i \in HandleIds |->
       IF <<i, "read">> \in eff THEN Min(fieldReads[i] + 1, MaxReads) ELSE fieldReads[i]]
  /\ UNCHANGED <<package, Configurations>>

(* ------------------------------------------------------------------ *)
(* Calls on the Redis manager                                          *)
(* ------------------------------------------------------------------ *)

CallNewRedis(nameId, isConnectAtStart, mustConnected) ==
  /\ ~terminated /\ package = "redis"
  /\ Len(heap) < MaxHandles
  /\ heap' = Append(heap, NewRedisObject(nameId, isConnectAtStart, mustConnected))
  /\ Redises' = [Redises EXCEPT ![nameId] = Len(heap) + 1]
  /\ UNCHANGED Databases
  /\ Record("NewRedis", 0, "", "ok", {})

CallLoadFromConfiguration(sec) ==
  /\ ~terminated /\ package = "redis"
  /\ Len(heap) + Cardinality(Entries(Configurations[sec])) <= MaxHandles
  /\ IF ~Configurations[sec].present
     THEN /\ UNCHANGED <<heap, Redises, Databases>>
          /\ Record("LoadFromConfiguration", 0, sec, "err", {})
     ELSE \E order \in Orders(Entries(Configurations[sec])) :
            LET st == ForEachEntry("LoadFromConfiguration", order, Loop(heap, Redises),
                                   Configurations, sec)
            IN /\ heap' = st.heap
               /\ Redises' = st.reg
               /\ UNCHANGED Databases
               /\ Record("LoadFromConfiguration", 0, sec, st.ret, st.eff)

\* ConnectAllAtStart, ConnectAll and DisconnectAll of the Redis manager.
CallRedisBulk(op) ==
  /\ ~terminated /\ package = "redis"
  /\ \E order \in Orders(Registered(Redises)), ok \in [Registered(Redises) -> BOOLEAN] :
       LET st == ForEach(op, order, Loop(heap, Redises), Configurations, "redis", ok)
       IN /\ heap' = st.heap
          /\ UNCHANGED <<Redises, Databases>>
          /\ Record(op, 0, "", st.ret, st.eff)

CallConnectAllAtStart == CallRedisBulk("ConnectAllAtStart")
CallConnectAll == CallRedisBulk("ConnectAll")
CallDisconnectAll == CallRedisBulk("DisconnectAll")

\* A method called on a Redis handle the caller holds.
CallOnRedis(op, id, res) ==
  /\ ~terminated /\ package = "redis"
  /\ heap' = [heap EXCEPT ![id] = res.h]
  /\ UNCHANGED <<Redises, Databases>>
  /\ Record(op, id, "", res.ret, {<<id, e>> : e \in res.eff})

CallApplyFromConfiguration(id) ==
  CallOnRedis("ApplyFromConfiguration", id, ApplyFromConfiguration(heap[id], Configurations))
CallConnect(id) ==
  \E pingOK \in BOOLEAN :
    CallOnRedis("Connect", id, Connect(heap[id], Configurations, pingOK))
CallDisconnect(id) ==
  \E closeOK \in BOOLEAN : CallOnRedis("Disconnect", id, Disconnect(heap[id], closeOK))

(* ------------------------------------------------------------------ *)
(* Calls on the database manager                                       *)
(* ------------------------------------------------------------------ *)

CallNewDatabase(nameId, isConnectAtStart, mustBeConnected) ==
  /\ ~terminated /\ package = "databases"
  /\ Len(heap) < MaxHandles
  /\ heap' = Append(heap, NewDatabaseObject(nameId, isConnectAtStart, mustBeConnected))
  /\ Databases' = [Databases EXCEPT ![nameId] = Len(heap) + 1]
  /\ UNCHANGED Redises
  /\ Record("NewDatabase", 0, "", "ok", {})

\* Configurations[configurationNameId] of an absent section is a nil pointer,
\* dereferenced by the range statement.
CallDbLoadFromConfiguration(sec) ==
  /\ ~terminated /\ package = "databases"
  /\ Len(heap) + Cardinality(Entries(Configurations[sec])) <= MaxHandles
  /\ IF ~Configurations[sec].present
     THEN /\ UNCHANGED <<heap, Redises, Databases>>
          /\ Record("LoadFromConfiguration", 0, sec, NilDereference, {})
     ELSE \E order \in Orders(Entries(Configurations[sec])) :
            LET st == ForEachEntry("DbLoadFromConfiguration", order, Loop(heap, Databases),
                                   Configurations, sec)
            IN /\ heap' = st.heap
               /\ Databases' = st.reg
               /\ UNCHANGED Redises
               /\ Record("LoadFromConfiguration", 0, sec, st.ret, st.eff)

\* ConnectAllAtStart, ConnectAll and DisconnectAll of the database manager.
CallDbBulk(op, name, sec) ==
  /\ ~terminated /\ package = "databases"
  /\ \E order \in Orders(Registered(Databases)), ok \in [Registered(Databases) -> BOOLEAN] :
       LET st == ForEach(op, order, Loop(heap, Databases), Configurations, sec, ok)
       IN /\ heap' = st.heap
          /\ UNCHANGED <<Redises, Databases>>
          /\ Record(name, 0, "", st.ret, st.eff)

CallDbConnectAllAtStart(sec) == CallDbBulk("DbConnectAllAtStart", "ConnectAllAtStart", sec)
CallDbConnectAll(sec) == CallDbBulk("DbConnectAll", "ConnectAll", sec)
CallDbDisconnectAll == CallDbBulk("DbDisconnectAll", "DisconnectAll", "")

(* ------------------------------------------------------------------ *)
(* The configuration subsystem                                         *)
(* ------------------------------------------------------------------ *)

\* The configuration loader binds, or rebinds, the sections.
SetConfiguration ==
  /\ ~terminated
  /\ Configurations' \in HandleConfigValues \ {Configurations}
  /\ UNCHANGED <<package, heap, Redises, Databases, terminated, lastOp, effects,
                 fieldReads>>

(* ------------------------------------------------------------------ *)
(* Specifications                                                      *)
(* ------------------------------------------------------------------ *)

\* The <<isConnectAtStart, mustConnected>> a caller registers a handle with;
\* a handle that must be connected but not at start comes from an entry.
FlagValues == {<<TRUE, TRUE>>, <<TRUE, FALSE>>, <<FALSE, FALSE>>}

\* The managers: registration, loading and the bulk operations of either
\* package, under a configuration bound before the run.
Next ==
  \/ \E n \in Names, f \in FlagValues : CallNewRedis(n, f[1], f[2])
  \/ \E sec \in SectionNames : CallLoadFromConfiguration(sec)
  \/ CallConnectAllAtStart
  \/ CallConnectAll
  \/ CallDisconnectAll
  \/ \E n \in Names, f \in FlagValues : CallNewDatabase(n, f[1], f[2])
  \/ \E sec \in SectionNames : CallDbLoadFromConfiguration(sec)
  \/ \E sec \in SectionNames : CallDbConnectAllAtStart(sec)
  \/ \E sec \in SectionNames : CallDbConnectAll(sec)
  \/ CallDbDisconnectAll

Spec == Init /\ [][Next]_vars

\* One Redis handle: created once, then any sequence of calls on it while the
\* configuration loader may rebind the configuration between them.
InitHandle == Init /\ package = "redis"

NextHandle ==
  \/ \E n \in Names, s, m \in BOOLEAN : heap = <<>> /\ CallNewRedis(n, s, m)
  \/ \E id \in Allocated : CallApplyFromConfiguration(id)
  \/ \E id \in Allocated : CallConnect(id)
  \/ \E id \in Allocated : CallDisconnect(id)
  \/ SetConfiguration

SpecHandle == InitHandle /\ [][NextHandle]_vars

(* ------------------------------------------------------------------ *)
(* Properties of one Redis handle (SpecHandle)                         *)
(* ------------------------------------------------------------------ *)

\* A step that is a call on the handle, not a rebinding of the configuration.
IsCall == Configurations' = Configurations

\* The side effects the step just taken performed on handle id.
EffectsOn(id) == {p[2] : p \in {q \in effects' : q[1] = id}}

\* The address the configuration now holds for handle id.
ConfiguredAddress(id) == AsString(Configurations["redis"].data[heap[id].NameId].f.address).val

\* C1: a connected handle is configured, and a configured handle stays
\* configured with the same Address, UserName, Password and DatabaseIndex,
\* whatever is called on it and however the configuration is rebound.
C1_Lifecycle ==
  [][/\ \A id \in 1..Len(heap') : heap'[id].Connected => heap'[id].IsConfigured
     /\ \A id \in Allocated :
          heap[id].IsConfigured =>
            /\ heap'[id].IsConfigured
            /\ heap'[id].Address = heap[id].Address
            /\ heap'[id].UserName = heap[id].UserName
            /\ heap'[id].Password = heap[id].Password
            /\ heap'[id].DatabaseIndex = heap[id].DatabaseIndex]_vars

\* A handle was connected and disconnected, and is still configured with an
\* address the configuration no longer holds.
C1_Witness ==
  \E id \in Allocated :
    /\ lastOp.op = "Disconnect" /\ lastOp.ret = "ok" /\ <<id, "closed">> \in effects
    /\ heap[id].IsConfigured /\ ~heap[id].Connected
    /\ ConfiguredAddress(id) # heap[id].Address

\* C2: the connection reference is present exactly when Connected is true.
C2_ConnectionIffConnected ==
  \A id \in Allocated : (heap[id].Connection # Nil) <=> heap[id].Connected

\* A Connect whose ping failed has returned.
C2_Witness ==
  \E id \in Allocated :
    /\ lastOp.op = "Connect" /\ lastOp.ret = "err" /\ <<id, "pingfail">> \in effects
    /\ ~heap[id].Connected

\* C3: Connect on a connected handle and Disconnect on a handle that is not
\* connected return no error, change no field and perform no side effect.
C3_ReentryIsNoOp ==
  [][(/\ IsCall
      /\ \/ lastOp'.op = "Connect" /\ heap[lastOp'.id].Connected
         \/ lastOp'.op = "Disconnect" /\ ~heap[lastOp'.id].Connected)
     => /\ lastOp'.ret = "ok"
        /\ heap' = heap
        /\ effects' = {}]_vars

\* Connect returned from its early exit on a connected handle.
C3_Witness ==
  /\ lastOp.op = "Connect" /\ lastOp.ret = "ok" /\ effects = {}
  /\ heap[lastOp.id].Connected

\* C4 as claimed: the configuration fields are read into a handle at most once
\* over its lifetime, whatever the calls return.
C4_ReadAtMostOnce == \A id \in Allocated : fieldReads[id] <= 1

\* C4 as amended: once a handle is configured no call reads the configuration
\* fields into it again, and a configured handle has had them read.
C4_NoReadOnceConfigured ==
  [][/\ \A id \in Allocated : heap[id].IsConfigured => fieldReads'[id] = fieldReads[id]
     /\ \A id \in 1..Len(heap') : heap'[id].IsConfigured => fieldReads'[id] >= 1]_vars

\* ApplyFromConfiguration was called again on a configured handle, whose
\* fields had been read twice: by a call that failed and by one that succeeded.
C4_Witness ==
  /\ lastOp.op = "ApplyFromConfiguration" /\ lastOp.ret = "ok" /\ effects = {}
  /\ heap[lastOp.id].IsConfigured
  /\ fieldReads[lastOp.id] = 2

\* C5: after a failed ping the handle is not connected and holds no
\* connection; Connect returned the error, or took the fatal path when
\* MustConnected.
C5_PingFailure ==
  \A id \in Allocated :
    <<id, "pingfail">> \in effects =>
      /\ ~heap[id].Connected
      /\ heap[id].Connection = Nil
      /\ lastOp.ret = IF heap[id].MustConnected THEN "fatal" ELSE "err"

\* The ping failed on a handle that must be connected: the process is ended.
C5_Witness ==
  \E id \in Allocated :
    /\ lastOp.op = "Connect" /\ <<id, "pingfail">> \in effects
    /\ heap[id].MustConnected /\ terminated

\* C6: a failed close leaves the handle as it was, connected and holding its
\* connection, and Disconnect returns the error; a close that succeeds clears
\* the connection and Connected and keeps IsConfigured.
C6_CloseFailure ==
  [][(IsCall /\ lastOp'.op = "Disconnect" /\ heap[lastOp'.id].Connected)
     => LET id == lastOp'.id IN
        \/ /\ <<id, "closefail">> \in effects'
           /\ lastOp'.ret = "err"
           /\ heap' = heap
           /\ heap'[id].Connection # Nil
        \/ /\ <<id, "closed">> \in effects'
           /\ lastOp'.ret = "ok"
           /\ heap'[id].Connection = Nil
           /\ ~heap'[id].Connected
           /\ heap'[id].IsConfigured]_vars

\* Disconnect returned the close error on a handle that is still connected.
C6_Witness ==
  \E id \in Allocated :
    /\ lastOp.op = "Disconnect" /\ lastOp.ret = "err" /\ <<id, "closefail">> \in effects
    /\ heap[id].Connected

\* The record the configuration now holds for handle id lacks the address.
AddressAbsent(id) ==
  /\ Configurations["redis"].present
  /\ AsJSON(Configurations["redis"].data[heap[id].NameId]).ok
  /\ Configurations["redis"].data[heap[id].NameId].f.address = JAbsent

\* C14: while the record of an unconfigured handle lacks the address field,
\* ApplyFromConfiguration, called directly or by Connect, takes the fatal
\* path when MustConnected and returns an error otherwise; the handle stays
\* unconfigured and is not connected.
C14_AddressAbsent ==
  [][(/\ IsCall /\ lastOp'.op \in {"ApplyFromConfiguration", "Connect"}
      /\ ~heap[lastOp'.id].IsConfigured
      /\ AddressAbsent(lastOp'.id))
     => LET id == lastOp'.id IN
        /\ lastOp'.ret = IF heap[id].MustConnected THEN "fatal" ELSE "err"
        /\ terminated' = heap[id].MustConnected
        /\ ~heap'[id].IsConfigured
        /\ ~heap'[id].Connected /\ heap'[id].Connection = Nil
        /\ EffectsOn(id) \cap {"newring", "ping"} = {}]_vars

\* Connect returned the error of ApplyFromConfiguration on a handle whose
\* record lacks the address; the handle is unconfigured and not connected.
C14_Witness ==
  /\ lastOp.op = "Connect" /\ lastOp.ret = "err"
  /\ lastOp.id \in Allocated
  /\ <<lastOp.id, "read">> \in effects
  /\ AddressAbsent(lastOp.id)
  /\ ~heap[lastOp.id].IsConfigured /\ ~heap[lastOp.id].Connected

(* ------------------------------------------------------------------ *)
(* Properties of the managers (Spec)                                   *)
(* ------------------------------------------------------------------ *)

\* The handles in the registry of the package the run exercises.
InRegistry == Registered(Redises) \cup Registered(Databases)

\* C7: ConnectAllAtStart leaves Connected and the connection of every
\* registered handle whose IsConnectAtStart is false as they were, and when
\* it returns no error every registered handle whose flag is true is connected.
C7_OnlyFlaggedAtStart ==
  [][(IsCall /\ lastOp'.op = "ConnectAllAtStart")
     => /\ \A id \in InRegistry :
             ~heap[id].IsConnectAtStart =>
               /\ heap'[id].Connected = heap[id].Connected
               /\ heap'[id].Connection = heap[id].Connection
        /\ lastOp'.ret = "ok" =>
             \A id \in InRegistry : heap[id].IsConnectAtStart => heap'[id].Connected]_vars

\* ConnectAllAtStart returned no error on a registry of two handles: the one
\* flagged is connected by it, the other is not connected.
C7_Witness ==
  /\ lastOp.op = "ConnectAllAtStart" /\ lastOp.ret = "ok"
  /\ \E i, j \in InRegistry :
       /\ heap[i].IsConnectAtStart /\ heap[i].Connected /\ <<i, "ping">> \in effects
       /\ ~heap[j].IsConnectAtStart /\ ~heap[j].Connected

\* C8: after a ConnectAllAtStart that returns no error every registered
\* handle is configured, in the Redis and in the database manager.
C8_AllConfiguredAtStart ==
  (lastOp.op = "ConnectAllAtStart" /\ lastOp.ret = "ok")
    => \A id \in InRegistry : heap[id].IsConfigured

\* C9: after a ConnectAll that returns no error every registered handle is
\* configured and connected and holds a connection, whatever its flags.
C9_ConnectAllConnectsAll ==
  (lastOp.op = "ConnectAll" /\ lastOp.ret = "ok")
    => \A id \in InRegistry :
         /\ heap[id].IsConfigured
         /\ heap[id].Connected
         /\ heap[id].Connection # Nil

\* ConnectAll of the Redis manager returned no error and connected two
\* handles, one of them with neither flag set.
C9_Witness ==
  /\ package = "redis" /\ lastOp.op = "ConnectAll" /\ lastOp.ret = "ok"
  /\ \E i, j \in InRegistry :
       /\ i # j
       /\ <<i, "ping">> \in effects /\ <<j, "ping">> \in effects
       /\ ~heap[i].IsConnectAtStart /\ ~heap[i].MustConnected
       /\ heap[i].Connected /\ heap[j].Connected

\* C10: after a DisconnectAll that returns no error no registered handle is
\* connected or holds a connection, and each has the IsConfigured it had.
C10_DisconnectAllDisconnectsAll ==
  [][(IsCall /\ lastOp'.op = "DisconnectAll" /\ lastOp'.ret = "ok")
     => \A id \in InRegistry :
          /\ ~heap'[id].Connected
          /\ heap'[id].Connection = Nil
          /\ heap'[id].IsConfigured = heap[id].IsConfigured]_vars

\* DisconnectAll returned no error after closing the connections of two
\* registered handles.
C10_Witness ==
  /\ lastOp.op = "DisconnectAll" /\ lastOp.ret = "ok"
  /\ \E i, j \in InRegistry :
       /\ i # j
       /\ <<i, "closed">> \in effects /\ <<j, "closed">> \in effects
       /\ heap[i].IsConfigured /\ ~heap[i].Connected /\ ~heap[j].Connected

\* The registry of the package the run exercises, out of the two given.
RegistryOf(redises, databases) == IF package = "redis" THEN redises ELSE databases

\* The bulk operation just called ran its loop body on registered handle id
\* and the body returned ret.
Stepped(id, ret) ==
  \E sec \in (IF package = "redis" THEN {"redis"} ELSE SectionNames) :
    LET op == IF package = "redis" THEN lastOp'.op ELSE "Db" \o lastOp'.op
        eff == EffectsOn(id)
        \* the outcome of the ping or the close, had the body performed one
        ok == eff \cap {"pingfail", "closefail"} = {}
        res == Step(op, heap[id], Configurations, sec, ok)
    IN /\ res.ret = ret
       /\ heap'[id] = res.h
       /\ eff = res.eff

\* The bulk operation just called did nothing on registered handle id.
Untouched(id) == heap'[id] = heap[id] /\ EffectsOn(id) = {}

\* What LoadFromConfiguration's body does for entry k of the section it was
\* given: the handle it creates and the return of its ApplyFromConfiguration.
Loaded(k) ==
  LET f == Configurations[lastOp'.arg].data[k].f
      start == FlagOf(f.is_connect_at_start)
      must == FlagOf(f.must_connected)
  IN IF package = "redis"
     THEN ApplyFromConfiguration(NewRedisObject(k, start, must), Configurations)
     ELSE DbApplyFromConfiguration(NewDatabaseObject(k, start, must), Configurations,
                                   lastOp'.arg)

\* LoadFromConfiguration just ran its loop body on entry k and the body
\* returned ret: an entry that is no record creates nothing, a record creates
\* and registers a handle.
EntryStepped(k, ret) ==
  LET reg == RegistryOf(Redises, Databases)
      regAfter == RegistryOf(Redises', Databases')
  IN IF ~AsJSON(Configurations[lastOp'.arg].data[k]).ok
     THEN ret = "err" /\ regAfter[k] = reg[k]
     ELSE /\ regAfter[k] > Len(heap)
          /\ heap'[regAfter[k]] = Loaded(k).h
          /\ EffectsOn(regAfter[k]) = Loaded(k).eff
          /\ Loaded(k).ret = ret

\* C11: a bulk operation that does not return nil aborted at the first
\* failing step.  Exactly one handle (or entry) has a step that failed, with
\* the return the bulk operation hands to its caller; every other handle was
\* either stepped with success and keeps its new state, or was not visited
\* and is unchanged.  A bulk operation that returns nil stepped every handle
\* with success.
C11_AbortAtFirstError ==
  [][/\ (IsCall /\ lastOp'.op \in {"ConnectAll", "ConnectAllAtStart", "DisconnectAll"})
        => IF lastOp'.ret = "ok"
           THEN \A id \in InRegistry : Stepped(id, "ok")
           ELSE \E f \in InRegistry :
                  /\ \A id \in InRegistry \ {f} :
                       EffectsOn(id) \cap {"pingfail", "closefail"} = {}
                  /\ Stepped(f, IF lastOp'.ret = "fatal" THEN "fatal" ELSE "err")
                  /\ \A id \in InRegistry \ {f} : Untouched(id) \/ Stepped(id, "ok")
     /\ (IsCall /\ lastOp'.op = "LoadFromConfiguration" /\ Configurations[lastOp'.arg].present)
        => LET entries == Entries(Configurations[lastOp'.arg])
               reg == RegistryOf(Redises, Databases)
               regAfter == RegistryOf(Redises', Databases')
           IN IF lastOp'.ret = "ok"
              THEN \A k \in entries : EntryStepped(k, "ok")
              ELSE \E f \in entries :
                     /\ EntryStepped(f, lastOp'.ret)
                     /\ \A k \in entries \ {f} :
                          EntryStepped(k, "ok") \/ regAfter[k] = reg[k]
                     /\ Len(heap') - Len(heap) =
                          Cardinality({k \in entries : regAfter[k] # reg[k]})]_vars

\* ConnectAll returned the error of a failed ping on one handle and left the
\* other registered handle, configured and not connected, as it was.
C11_Witness ==
  /\ lastOp.op = "ConnectAll" /\ lastOp.ret = "err"
  /\ \E f, j \in InRegistry :
       /\ f # j
       /\ <<f, "pingfail">> \in effects
       /\ heap[j].IsConfigured /\ ~heap[j].Connected
       /\ \A e \in {"read", "newring", "ping"} : <<j, e>> \notin effects

\* The handle NewRedis or NewDatabase has just registered under nameId is a
\* new object, unconfigured and not connected, with the flags given; the
\* other names of the registry and the other handles are as they were.
Registers(nameId, isConnectAtStart, mustConnected) ==
  LET reg == RegistryOf(Redises, Databases)
      regAfter == RegistryOf(Redises', Databases')
      id == regAfter[nameId]
  IN /\ id \notin Allocated /\ id \in 1..Len(heap')
     /\ heap'[id].NameId = nameId
     /\ ~heap'[id].IsConfigured
     /\ ~heap'[id].Connected /\ heap'[id].Connection = Nil
     /\ heap'[id].IsConnectAtStart = isConnectAtStart
     /\ heap'[id].MustConnected = mustConnected
     /\ \A n \in Names \ {nameId} : regAfter[n] = reg[n]
     /\ \A i \in Allocated : heap'[i] = heap[i]

\* C17: NewRedis and NewDatabase register under nameId a new handle that is
\* unconfigured and not connected and has the flags given, in place of any
\* handle the name had, and change no other entry; and no call takes a name
\* out of a registry.
C17_NewRegisters ==
  [][/\ \A n \in Names, f \in FlagValues :
          (CallNewRedis(n, f[1], f[2]) \/ CallNewDatabase(n, f[1], f[2]))
            => Registers(n, f[1], f[2])
     /\ \A n \in Names :
          /\ Redises[n] # 0 => Redises'[n] # 0
          /\ Databases[n] # 0 => Databases'[n] # 0]_vars

\* NewRedis registered a second handle under the name of the first, which
\* the registry no longer holds.
C17_Witness ==
  /\ lastOp.op = "NewRedis"
  /\ Len(heap) = 2
  /\ heap[1].NameId = heap[2].NameId
  /\ Registered(Redises) = {2}
  /\ heap[1].IsConfigured /\ ~heap[2].IsConfigured

(* ------------------------------------------------------------------ *)
(* Loading a section (SpecLoad)                                        *)
(* ------------------------------------------------------------------ *)

\* What an entry may hold under is_connect_at_start and must_connected:
\* nothing, a boolean, or a string.
FlagFields == {JAbsent, JBool(TRUE), JBool(FALSE), JStr("true")}
\* The records of a section to load: any flags, the fields of a handle set.
LoadEntries == {Object(start, must, JStr("h1"), JAbsent, JStr("p1"), JInt(1)) :
                  start, must \in FlagFields}
LoadConfigValues ==
  {Configuration(Section(ea, eb)) : ea, eb \in LoadEntries \cup {NoEntry}}

\* The state after construction, under one of the configurations configs.
InitWith(configs) ==
  /\ package \in {"redis", "databases"}
  /\ Configurations \in configs
  /\ heap = <<>>
  /\ Redises = [n \in Names |-> 0]
  /\ Databases = [n \in Names |-> 0]
  /\ terminated = FALSE
  /\ lastOp = [op |-> "init", id |-> 0, arg |-> "", ret |-> "ok"]
  /\ effects = {}
  /\ fieldReads = [i \in HandleIds |-> 0]

InitLoad == InitWith(LoadConfigValues)

\* LoadFromConfiguration of either manager, on a section of records.
NextLoad ==
  \/ \E sec \in SectionNames : CallLoadFromConfiguration(sec)
  \/ \E sec \in SectionNames : CallDbLoadFromConfiguration(sec)

SpecLoad == InitLoad /\ [][NextLoad]_vars

\* The boolean an entry field holds, false when it holds none.
BooleanIn(v) == v.t = "bool" /\ v.b

\* C12: a LoadFromConfiguration that returns no error on an empty registry,
\* for a section whose entries are all records, registers exactly the entry
\* names of the section, each handle with the is_connect_at_start and
\* must_connected booleans of its entry, false for a field that is absent or
\* holds no boolean.
C12_LoadRegistersEntries ==
  [][(/\ lastOp'.op = "LoadFromConfiguration" /\ lastOp'.ret = "ok"
      /\ Registered(RegistryOf(Redises, Databases)) = {}
      /\ \A k \in Entries(Configurations[lastOp'.arg]) :
           AsJSON(Configurations[lastOp'.arg].data[k]).ok)
     => LET section == Configurations[lastOp'.arg]
            regAfter == RegistryOf(Redises', Databases')
        IN /\ {k \in Names : regAfter[k] # 0} = Entries(section)
           /\ \A k \in Entries(section) :
                /\ heap'[regAfter[k]].NameId = k
                /\ heap'[regAfter[k]].IsConnectAtStart =
                     BooleanIn(section.data[k].f.is_connect_at_start)
                /\ heap'[regAfter[k]].MustConnected =
                     BooleanIn(section.data[k].f.must_connected)]_vars

\* LoadFromConfiguration registered two handles from a section of two
\* records: one with a flag that is a string and a flag that is absent, one
\* with a flag that is true.
C12_Witness ==
  /\ lastOp.op = "LoadFromConfiguration" /\ lastOp.ret = "ok" /\ lastOp.arg = "redis"
  /\ LET section == Configurations["redis"]
         reg == RegistryOf(Redises, Databases)
     IN /\ reg["a"] # 0 /\ reg["b"] # 0 /\ reg["a"] # reg["b"]
        /\ section.data["a"].f.is_connect_at_start = JStr("true")
        /\ section.data["a"].f.must_connected = JAbsent
        /\ ~heap[reg["a"]].IsConnectAtStart /\ ~heap[reg["a"]].MustConnected
        /\ section.data["b"].f.must_connected = JBool(TRUE)
        /\ heap[reg["b"]].MustConnected

\* C13: LoadFromConfiguration given the name of a section that does not
\* exist returns an error value, in the Redis and in the database manager,
\* and creates and registers nothing; the process goes on.
C13_SectionNotFound ==
  [][(lastOp'.op = "LoadFromConfiguration" /\ ~Configurations[lastOp'.arg].present)
     => /\ lastOp'.ret = "err"
        /\ ~terminated'
        /\ heap' = heap /\ Redises' = Redises /\ Databases' = Databases]_vars

(* ------------------------------------------------------------------ *)
(* The fields of a record (SpecFields)                                 *)
(* ------------------------------------------------------------------ *)

\* Records with an address and any of user_name, password and
\* database_index, the last one also as a string.
FieldEntries ==
  {Object(JAbsent, JAbsent, JStr("h1"), user, pass, idx) :
     user \in {JAbsent, JStr("u1")}, pass \in {JAbsent, JStr("p1")},
     idx \in {JAbsent, JInt(1), JStr("1")}}
FieldConfigValues == {Configuration(Section(e, NoEntry)) : e \in FieldEntries}

InitFields == InitWith(FieldConfigValues) /\ package = "redis"

\* One Redis handle and the calls on it, under a configuration bound before.
NextFields ==
  \/ \E n \in Names, s, m \in BOOLEAN : heap = <<>> /\ CallNewRedis(n, s, m)
  \/ \E id \in Allocated : CallApplyFromConfiguration(id)
  \/ \E id \in Allocated : CallConnect(id)
  \/ \E id \in Allocated : CallDisconnect(id)

SpecFields == InitFields /\ [][NextFields]_vars

\* The fields of the record the configuration holds for handle id.
RecordOf(id) == Configurations["redis"].data[heap[id].NameId].f
\* Handle id has a record with a string address.
HasAddress(id) ==
  /\ AsJSON(Configurations["redis"].data[heap[id].NameId]).ok
  /\ RecordOf(id).address.t = "string"

ClientOutcomes == {"value", "nil", "ioerr", "badjson"}

\* r.Connection.<command>(...): a method of *redis.Ring called through the
\* field, a nil dereference when the field is nil; effect "use" otherwise.
OnConnection(r, ret) ==
  IF r.Connection = Nil THEN Result(r, NilDereference, {}) ELSE Result(r, ret, {"use"})

\* DXRedis.Ping.
Ping(r, out) == OnConnection(r, IF out = "ioerr" THEN "err" ELSE "ok")

\* DXRedis.Set; marshalOK is the outcome of json.Marshal, which comes first.
Set(r, marshalOK, out) ==
  IF ~marshalOK THEN Result(r, "err", {})
  ELSE OnConnection(r, IF out = "ioerr" THEN "err" ELSE "ok")

\* DXRedis.Get: a missing key is no error.
Get(r, out) == OnConnection(r, IF out \in {"ioerr", "badjson"} THEN "err" ELSE "ok")

\* DXRedis.MustGet: a missing key is an error.
MustGet(r, out) == OnConnection(r, IF out = "value" THEN "ok" ELSE "err")

\* DXRedis.Delete.
Delete(r, out) == OnConnection(r, IF out = "ioerr" THEN "err" ELSE "ok")

CallPing(id) == \E out \in ClientOutcomes : CallOnRedis("Ping", id, Ping(heap[id], out))
CallSet(id) ==
  \E marshalOK \in BOOLEAN, out \in ClientOutcomes :
    CallOnRedis("Set", id, Set(heap[id], marshalOK, out))
CallGet(id) == \E out \in ClientOutcomes : CallOnRedis("Get", id, Get(heap[id], out))
CallMustGet(id) ==
  \E out \in ClientOutcomes : CallOnRedis("MustGet", id, MustGet(heap[id], out))
CallDelete(id) == \E out \in ClientOutcomes : CallOnRedis("Delete", id, Delete(heap[id], out))

DataOperations == {"Ping", "Set", "Get", "MustGet", "Delete"}

\* One Redis handle: connected, used and disconnected in any order.
NextData ==
  \/ \E n \in Names, s, m \in BOOLEAN : heap = <<>> /\ CallNewRedis(n, s, m)
  \/ \E id \in Allocated : CallConnect(id)
  \/ \E id \in Allocated : CallDisconnect(id)
  \/ \E id \in Allocated : CallPing(id)
  \/ \E id \in Allocated : CallSet(id)
  \/ \E id \in Allocated : CallGet(id)
  \/ \E id \in Allocated : CallMustGet(id)
  \/ \E id \in Allocated : CallDelete(id)

SpecData == InitHandle /\ [][NextData]_vars

\* C16: a data operation that uses the client is on a handle that is
\* connected and holds its connection, and a data operation called on a
\* handle that is not connected does not dereference the absent connection.
C16_DataRequiresConnected ==
  [][lastOp'.op \in DataOperations
     => LET id == lastOp'.id IN
        /\ "use" \in EffectsOn(id) => heap[id].Connected /\ heap[id].Connection # Nil
        /\ ~heap[id].Connected => lastOp'.ret # NilDereference]_vars

(* ------------------------------------------------------------------ *)
(* Loading one of several sections (SpecSections)                      *)
(* ------------------------------------------------------------------ *)

\* The section names of a configuration that has a second section.
AllSectionNames == SectionNames \cup {"cache"}
\* What a section may hold: the two records under either name, one record,
\* or the section is not there.
LoadableSections ==
  {Section(Complete, Minimal), Section(Minimal, Complete), Section(Minimal, NoEntry),
   NoSection}
SectionsConfigValues ==
  {[sec \in AllSectionNames |->
      IF sec = "redis" THEN r ELSE IF sec = "cache" THEN c ELSE NoSection] :
     r, c \in LoadableSections}

InitSections == InitWith(SectionsConfigValues)

\* LoadFromConfiguration of either manager, given any of the section names.
NextSections ==
  \/ \E sec \in AllSectionNames : CallLoadFromConfiguration(sec)
  \/ \E sec \in AllSectionNames : CallDbLoadFromConfiguration(sec)

SpecSections == InitSections /\ [][NextSections]_vars

\* C18: LoadFromConfiguration(S) configures the handle it registers for
\* entry k of section S from that entry: when it returns no error the handle
\* is configured, and a configured handle has the address, the credentials
\* and (Redis) the database index of entry k of S, whatever the other
\* sections hold.
C18_ConfiguredFromOwnSection ==
  [][(lastOp'.op = "LoadFromConfiguration" /\ Configurations[lastOp'.arg].present)
     => LET section == Configurations[lastOp'.arg]
            regAfter == RegistryOf(Redises', Databases')
        IN \A k \in Entries(section) :
             regAfter[k] \notin Allocated /\ regAfter[k] # 0 =>
               LET h == heap'[regAfter[k]]
                   f == section.data[k].f
               IN /\ lastOp'.ret = "ok" => h.IsConfigured
                  /\ h.IsConfigured =>
                       /\ h.Address = f.address.s
                       /\ h.HasUserName = (f.user_name.t = "string")
                       /\ h.UserName = f.user_name.s
                       /\ h.HasPassword = (f.password.t = "string")
                       /\ h.Password = f.password.s
                       /\ h.kind = "redis" => h.DatabaseIndex = f.database_index.n]_vars

(* ------------------------------------------------------------------ *)
(* Ownership of the connections                                        *)
(* ------------------------------------------------------------------ *)

\* C19 (Spec): every Redis handle that is connected is the one the manager
\* has registered under its name, so that DisconnectAll reaches every
\* connection opened through the manager.
C19_ConnectedIsRegistered ==
  package = "redis" =>
    \A id \in Allocated : heap[id].Connected => Redises[heap[id].NameId] = id

\* C20 (SpecHandle): when Connect returns, a client it constructed is either
\* the connection of the handle, which is connected, or has been closed.
C20_ClientAccountedFor ==
  \A id \in Allocated :
    (lastOp.op = "Connect" /\ ~terminated /\ <<id, "newring">> \in effects)
      => \/ heap[id].Connected /\ heap[id].Connection = Ring
         \/ <<id, "closed">> \in effects

====
